---------------------------- MODULE Spec2Model ----------------------------
(* A state-machine model of the two command-line programs of the          *)
(* repository: src/src/network_analyzer.py (complexity / bandwidth        *)
(* analysis of one model, of many models, or of teacher/student pairs)    *)
(* and src/src/autoencoder_tester.py (splicing an autoencoder into a      *)
(* host network and testing it).                                          *)
(*                                                                        *)
(* Python values are modelled as follows.  A string that the code takes   *)
(* apart (startswith, endswith, lower) is a tuple of one-character        *)
(* strings; a string that is only compared or used as a key is a TLA+     *)
(* string.  Python's None is the one-element tuple None below, which no   *)
(* character tuple equals; where a file path is expected, None is the     *)
(* string NoPath, which names no file.  A list is a sequence, indexed     *)
(* from 0 through PyIndex.  A quotient a / b is the reduced fraction      *)
(* <<p, q>>.                                                              *)
EXTENDS Integers, Sequences, FiniteSets, TLC

VARIABLES
    prog,                       \* which program runs
    pc,                         \* the function the program is executing
    error,                      \* the exception that ended the run, or None
    calls,                      \* the analyses run() has entered, in order
    args,                       \* the parsed command line
    mimic_yaml,                 \* what has been read of mimic.yaml's model sections
    analyzed,                   \* the (path, model, model_type) handed to analyze
    plots,                      \* the plot calls made, in order
    op_counts,                  \* result of the latest analyze call
    bandwidths,
    accum_complexities,
    op_counts_list,             \* analyze_multiple_models' lists
    bandwidths_list,
    accum_complexities_list,
    model_type_list,            \* shared name in both aggregating analyses
    teacher_op_counts,          \* the teacher pass of the latest iteration
    teacher_bandwidths,
    teacher_accum_complexities,
    made_bottleneck,
    bottleneck_idx,
    teacher_complexity_list,
    student_complexity_list,
    teacher_bandwidth_list,
    student_bandwidth_list,
    tester_config,              \* autoencoder_tester: its inputs
    device,                     \* autoencoder_tester: run's device
    autoencoder,
    resumed,                    \* what resume_from_ckpt returned
    extended_model

analyzer_vars ==
    <<calls, args, mimic_yaml, analyzed, plots, op_counts, bandwidths,
      accum_complexities, op_counts_list, bandwidths_list,
      accum_complexities_list, model_type_list, teacher_op_counts,
      teacher_bandwidths, teacher_accum_complexities, made_bottleneck,
      bottleneck_idx, teacher_complexity_list, student_complexity_list,
      teacher_bandwidth_list, student_bandwidth_list>>

tester_vars == <<tester_config, device, autoencoder, resumed, extended_model>>

vars == <<prog, pc, error, analyzer_vars, tester_vars>>

-----------------------------------------------------------------------------
(* Bounds of the model.                                                   *)

\* Most config paths on one command line.
MaxPaths == 2

\* Most primitive layers of a student network.
MaxLayers == 3

\* Most primitive layers of the host network an autoencoder is spliced into.
MaxHostLayers == 3

\* Latest epoch a checkpoint was saved at.
MaxEpoch == 3

-----------------------------------------------------------------------------
(* Python values and builtins.                                            *)

None == <<"None">>

NoPath == "None"

RECURSIVE GCD(_, _)
GCD(a, b) == IF b = 0 THEN a ELSE GCD(b, a % b)

\* a / b on positive numbers: the quotient as a reduced fraction.
TrueDiv(a, b) == <<a \div GCD(a, b), b \div GCD(a, b)>>

\* seq[i] for a Python index i: 0-based, negative counting from the end.
PyIndex(seq, i) == IF i >= 0 THEN seq[i + 1] ELSE seq[Len(seq) + i + 1]

\* seq[:i] and seq[i:] with Python's clamping of the slice bound.
PyBound(seq, i) ==
    IF i >= 0 THEN (IF i > Len(seq) THEN Len(seq) ELSE i)
    ELSE (IF Len(seq) + i < 0 THEN 0 ELSE Len(seq) + i)

PySliceTo(seq, i) == SubSeq(seq, 1, PyBound(seq, i))

PySliceFrom(seq, i) == SubSeq(seq, PyBound(seq, i) + 1, Len(seq))

\* np.argmin: the 0-based index of the first occurrence of the minimum.
argmin(seq) ==
    CHOOSE k \in 0..(Len(seq) - 1) :
        /\ \A j \in 0..(Len(seq) - 1) : seq[k + 1] <= seq[j + 1]
        /\ \A j \in 0..(k - 1) : seq[j + 1] > seq[k + 1]

startswith(s, prefix) ==
    Len(s) >= Len(prefix) /\ SubSeq(s, 1, Len(prefix)) = prefix

endswith(s, suffix) ==
    Len(s) >= Len(suffix)
        /\ SubSeq(s, Len(s) - Len(suffix) + 1, Len(s)) = suffix

UpperToLower ==
    [c \in {"A", "E", "I", "L", "M", "N", "O", "S", "T", "V", "X", "Y"} |->
        CASE c = "A" -> "a" [] c = "E" -> "e" [] c = "I" -> "i"
          [] c = "L" -> "l" [] c = "M" -> "m" [] c = "N" -> "n"
          [] c = "O" -> "o" [] c = "S" -> "s" [] c = "T" -> "t"
          [] c = "V" -> "v" [] c = "X" -> "x" [] c = "Y" -> "y"]

lower(s) ==
    [k \in 1..Len(s) |->
        IF s[k] \in DOMAIN UpperToLower THEN UpperToLower[s[k]] ELSE s[k]]


\* int(token) for the one-digit tokens of the modelled --isize values.
DigitValue == [c \in {"1", "2", "3"} |-> CASE c = "1" -> 1 [] c = "2" -> 2 [] c = "3" -> 3]

\* data_util.convert2type_list(s, ',', int) on comma-separated one-digit tokens.
RECURSIVE convert2type_list(_)
convert2type_list(s) ==
    IF s = <<>> THEN <<>>
    ELSE IF s[1] = "," THEN convert2type_list(Tail(s))
    ELSE <<DigitValue[s[1]]>> \o convert2type_list(Tail(s))

RECURSIVE Product(_)
Product(s) == IF s = <<>> THEN 1 ELSE s[1] * Product(Tail(s))

-----------------------------------------------------------------------------
(* Exceptions.                                                            *)

NoError == [type |-> "None", value |-> None]

Raised(type, value) == [type |-> type, value |-> value]

-----------------------------------------------------------------------------
(* Networks.  A network is a sequence of primitive layers; a layer has    *)
(* an operation count and the element count of the tensor it outputs.     *)

Layer(ops, out) == [ops |-> ops, out |-> out]

\* The layers a student network is built of: a wide convolution, a layer
\* that keeps the input's size, a compressing layer, and a layer of a kind
\* the analyzer does not know (no operations counted).
StudentLayers == {Layer(2, 3), Layer(2, 2), Layer(1, 1), Layer(0, 2)}

LayerSeqs(n) == [1..n -> StudentLayers]

Network(name, layers) == [kind |-> "Network", name |-> name, layers |-> layers]

\* The value of `model` when read_config gives up: Python's None.
NoneModel == [kind |-> "None", name |-> "None", layers |-> <<>>]

MnistLeNet5 == Network("MnistLeNet5", <<Layer(2, 2), Layer(1, 1)>>)

YOLOv2 == Network("YOLOv2", <<Layer(2, 3), Layer(2, 1)>>)

YOLOv3 == Network("YOLOv3", <<Layer(2, 3), Layer(2, 2), Layer(1, 1)>>)

\* What a callable entry of torchvision.models builds.
TorchvisionNet(model_type) == Network("torchvision", <<Layer(2, 2), Layer(2, 1)>>)

\* file_util.load_pickle of the pickle file that exists.
PickledNet == Network("pickle", <<Layer(1, 3), Layer(1, 1)>>)

\* module_util.get_model(config, 'cpu') for a plain model configuration.
ConfiguredNet(model_type) == Network("configured", <<Layer(1, 2), Layer(2, 2), Layer(1, 1)>>)

\* mimic_tester.get_mimic_model: the composed teacher + student pipeline.
MimicNet == Network("mimic", <<Layer(1, 1), Layer(2, 2)>>)

\* mimic_learner.get_teacher_model for the teacher_model section.
TeacherNets ==
    { Network("teacher", <<Layer(2, 3), Layer(2, 2), Layer(1, 1)>>),
      Network("teacher", <<Layer(1, 1), Layer(2, 3)>>) }

-----------------------------------------------------------------------------
(* Character tuples of the strings the code takes apart.                  *)

S_mnist == <<"m", "n", "i", "s", "t">>
S_MNIST == <<"M", "N", "I", "S", "T">>
S_yolov2 == <<"y", "o", "l", "o", "v", "2">>
S_YOLOv2 == <<"Y", "O", "L", "O", "v", "2">>
S_yolov3 == <<"y", "o", "l", "o", "v", "3">>
S_AlexNet == <<"A", "l", "e", "x", "N", "e", "t">>
S_alexnet == <<"a", "l", "e", "x", "n", "e", "t">>
S_resnet18 == <<"r", "e", "s", "n", "e", "t", "1", "8">>
S_resnet == <<"r", "e", "s", "n", "e", "t">>
S_dunder_name == <<"_", "_", "n", "a", "m", "e", "_", "_">>
S_LeNet == <<"L", "e", "N", "e", "t">>
S_cifar == <<"c", "i", "f", "a", "r">>
S_caltech == <<"c", "a", "l", "t", "e", "c", "h">>
S_cifar10 == <<"c", "i", "f", "a", "r", "1", "0">>
S_caltech101 == <<"c", "a", "l", "t", "e", "c", "h", "1", "0", "1">>
S_imagenet == <<"i", "m", "a", "g", "e", "n", "e", "t">>
S_b == <<"b">>
S_Ver == <<"V", "e", "r", ".">>

-----------------------------------------------------------------------------
(* The environment: the torchvision namespace and the files on disk.      *)

\* torchvision.models.__dict__: the package's namespace.  Besides the model
\* classes and builder functions it holds the package's submodules and its
\* module attributes, which are not callable.
torchvision_models ==
    [k \in {S_AlexNet, S_alexnet, S_resnet18, S_resnet, S_dunder_name} |->
        IF k \in {S_AlexNet, S_alexnet, S_resnet18} THEN "callable"
        ELSE IF k = S_resnet THEN "module" ELSE "str"]

ConfigPaths == {"cifar.yaml", "caltech.yaml", "imagenet.yaml", "mimic.yaml", "missing.yaml"}

PicklePaths == {"model.pkl"}

\* file_util.check_if_exists
check_if_exists(path) ==
    path \in (ConfigPaths \ {"missing.yaml"}) \cup PicklePaths

\* yaml_util.load_yaml_file of the files that exist, but for the teacher_model
\* and student_model sections of mimic.yaml, which the variable mimic_yaml holds.
load_yaml_file(path) ==
    CASE path = "cifar.yaml" ->
            [keys |-> {"dataset", "model", "input_shape"},
             dataset_name |-> S_cifar10, model_type |-> S_resnet18,
             mimic_type |-> None, input_shape |-> <<1, 1, 2>>]
      [] path = "caltech.yaml" ->
            [keys |-> {"dataset", "model", "input_shape"},
             dataset_name |-> S_caltech101, model_type |-> S_alexnet,
             mimic_type |-> None, input_shape |-> <<1, 1, 3>>]
      [] path = "imagenet.yaml" ->
            [keys |-> {"dataset", "model", "input_shape"},
             dataset_name |-> S_imagenet, model_type |-> S_resnet18,
             mimic_type |-> None, input_shape |-> <<1, 1, 3>>]
      [] path = "mimic.yaml" ->
            [keys |-> {"dataset", "teacher_model", "student_model",
                       "mimic_model", "input_shape"},
             dataset_name |-> S_imagenet, model_type |-> None,
             mimic_type |-> S_resnet18, input_shape |-> <<1, 1, 2>>]


\* The teacher_model and student_model sections a mimic.yaml can hold: the
\* teacher network, the student's version string and the student's layers.
Versions == {<<"3">>, <<"3", "b">>}

MimicSections ==
    { [read |-> TRUE, teacher |-> t, version |-> v, layers |-> l] :
        t \in TeacherNets, v \in Versions,
        l \in UNION { LayerSeqs(n) : n \in 1..MaxLayers } }

Unread ==
    [read |-> FALSE, teacher |-> NoneModel, version |-> <<>>, layers |-> <<>>]

-----------------------------------------------------------------------------
(* utils/net_measure_util: the measurement of a network.                  *)

\* Byte width of one tensor element.
ElementBytes == 4

\* Factor applied to every bandwidth when `scaled` is set.
ScaleFactor == 8

Bandwidth(elements, scaled) ==
    elements * ElementBytes * (IF scaled THEN ScaleFactor ELSE 1)

\* Running total: entry k is entry k-1 plus the k-th operation count.
RECURSIVE Accumulate(_, _)
Accumulate(counts, total) ==
    IF counts = <<>> THEN <<>>
    ELSE <<total + counts[1]>> \o Accumulate(Tail(counts), total + counts[1])

\* The measurement of a sequence of stages after an input of input_shape:
\* position 0 is the input itself, with no operations.
Measure(stages, input_shape, scaled) ==
    LET counts == <<0>> \o [k \in 1..Len(stages) |-> stages[k].ops]
    IN  [raised |-> NoError,
         op_counts |-> counts,
         bandwidths |->
            <<Bandwidth(Product(input_shape), scaled)>>
                \o [k \in 1..Len(stages) |-> Bandwidth(stages[k].out, scaled)],
         accum_complexities |-> Accumulate(counts, 0)]

\* A measurement that raised: nothing can be extracted from an absent model.
NoMeasurement ==
    [raised |-> Raised("AttributeError", None), op_counts |-> <<>>,
     bandwidths |-> <<>>, accum_complexities |-> <<>>]

\* Submodule mode stops at the first level of child modules: here a child
\* holds two consecutive primitive layers (the last child one, if odd).
RECURSIVE Children(_)
Children(layers) ==
    IF Len(layers) <= 1 THEN layers
    ELSE <<Layer(layers[1].ops + layers[2].ops, layers[2].out)>>
            \o Children(SubSeq(layers, 3, Len(layers)))

compute_model_complexity_and_bandwidth(model, model_type, input_shape, scaled, plot) ==
    IF model = NoneModel THEN NoMeasurement
    ELSE Measure(Children(model.layers), input_shape, scaled)

compute_layerwise_complexity_and_bandwidth(model, model_type, input_shape, scaled, plot) ==
    IF model = NoneModel THEN NoMeasurement
    ELSE Measure(model.layers, input_shape, scaled)

-----------------------------------------------------------------------------
(* network_analyzer.py                                                    *)

ModelTypes == {S_AlexNet, S_MNIST, S_YOLOv2, S_yolov3, S_resnet, S_LeNet}

\* The outcome of a call: the exception it raised (or NoError) and its value.
Returned(value) == [raised |-> NoError, value |-> value]

Threw(type, value) == [raised |-> Raised(type, value), value |-> NoneModel]

get_model(model_type) ==
    LET lower_model_type == lower(model_type)
    IN  IF lower_model_type = S_mnist THEN Returned(MnistLeNet5)
        ELSE IF lower_model_type = S_yolov2 THEN Returned(YOLOv2)
        ELSE IF lower_model_type = S_yolov3 THEN Returned(YOLOv3)
        ELSE IF model_type \in DOMAIN torchvision_models
            THEN IF torchvision_models[model_type] = "callable"
                    THEN Returned(TorchvisionNet(model_type))
                    ELSE Threw("TypeError", model_type)
        ELSE Threw("ValueError", model_type)

\* read_config's triple (model, model_type, input_shape).  Lines 46-47 only
\* set a construction parameter of inception_v3 and change nothing here.
read_config(config_file_path) ==
    LET config == load_yaml_file(config_file_path)
        dataset_name == config.dataset_name
    IN  IF ~startswith(dataset_name, S_cifar) /\ ~startswith(dataset_name, S_caltech)
        THEN [model |-> NoneModel, model_type |-> None, input_shape |-> None]
        ELSE [model |-> ConfiguredNet(config.model_type),
              model_type |-> config.model_type,
              input_shape |-> config.input_shape]

analyze(model, input_shape, model_type, scaled, submoduled, plot) ==
    IF submoduled
    THEN compute_model_complexity_and_bandwidth(model, model_type, input_shape, scaled, plot)
    ELSE compute_layerwise_complexity_and_bandwidth(model, model_type, input_shape, scaled, plot)

\* The model, model type and input shape analyze_single_model hands to
\* analyze, or the exception raised before it gets there.
single_model_inputs(config_file_path, a) ==
    IF check_if_exists(config_file_path)
    THEN LET config == load_yaml_file(config_file_path)
         IN  IF "teacher_model" \in config.keys
             THEN [raised |-> NoError, model |-> MimicNet,
                   model_type |-> config.mimic_type,
                   input_shape |-> config.input_shape]
             ELSE [raised |-> NoError] @@ read_config(config_file_path)
    ELSE LET model_type == a.model
             built == IF check_if_exists(a.pkl) THEN Returned(PickledNet)
                      ELSE get_model(model_type)
         IN  [raised |-> built.raised, model |-> built.value,
              model_type |-> model_type,
              input_shape |-> convert2type_list(a.isize)]

\* analyze_single_model: its inputs to analyze and what analyze returned.
analyze_single_model(config_file_path, a, plot) ==
    LET in == single_model_inputs(config_file_path, a)
        out == analyze(in.model, in.input_shape, in.model_type, a.scale, a.submodule, plot)
    IN  IF in.raised # NoError
        THEN [raised |-> in.raised, handed |-> <<>>, result |-> NoMeasurement]
        ELSE [raised |-> out.raised,
              handed |-> <<[path |-> config_file_path, model |-> in.model,
                            model_type |-> in.model_type, plot |-> plot]>>,
              result |-> out]


\* A faulty variant: the first accumulated complexity instead of the last.
TeacherComplexity_First(accum) == PyIndex(accum, 0)

\* Lines 129-130: the teacher's total complexity and bandwidth ratio.
TeacherComplexity(accum) == PyIndex(accum, -1)

TeacherBandwidth(bws) == TrueDiv(PyIndex(bws, -1), PyIndex(bws, 0))

\* Line 131.
BottleneckIdx(bws, made) == IF made THEN argmin(bws) ELSE -1

\* A faulty variant: the bottleneck flag is not consulted.
TakesLastLayer_IgnoresFlag(bws, b_idx, made) ==
    PyIndex(bws, b_idx) >= PyIndex(bws, 0)

\* A faulty variant: a minimum equal to the input bandwidth counts as a bottleneck.
TakesLastLayer_Strict(bws, b_idx, made) ==
    PyIndex(bws, b_idx) > PyIndex(bws, 0) \/ ~made

\* Line 132: the condition of the last-layer branch.
TakesLastLayer(bws, b_idx, made) ==
    PyIndex(bws, b_idx) >= PyIndex(bws, 0) \/ ~made

\* A faulty variant: the complexity accumulated at the bottleneck itself.
StudentComplexity_AtBottleneck(accum, bws, b_idx, made) ==
    IF PyIndex(bws, b_idx) >= PyIndex(bws, 0) \/ ~made THEN PyIndex(accum, -1)
    ELSE PyIndex(accum, b_idx)

\* Lines 133 and 136: what is appended to student_complexity_list.
StudentComplexity(accum, bws, b_idx, made) ==
    IF TakesLastLayer(bws, b_idx, made) THEN PyIndex(accum, -1)
    ELSE PyIndex(accum, b_idx - 1)

\* Lines 134 and 137: what is appended to student_bandwidth_list.
StudentBandwidth(bws, b_idx, made) ==
    IF TakesLastLayer(bws, b_idx, made)
    THEN TrueDiv(PyIndex(bws, -1), PyIndex(bws, 0))
    ELSE TrueDiv(PyIndex(bws, b_idx), PyIndex(bws, 0))

\* 'Ver.{}'.format(student_model_version)
VersionLabel(version) == S_Ver \o version

-----------------------------------------------------------------------------
(* The command lines.  --model, --pkl and --isize are read only when the  *)
(* config path does not exist, so they vary with such a path (or none)    *)
(* and keep argparse's defaults otherwise.                                *)

PathLists == UNION { [1..n -> ConfigPaths] : n \in 0..MaxPaths }

\* The paths given together with -ts: a mimic configuration, a plain one
\* and one that does not exist.
MimicPaths == {"mimic.yaml", "cifar.yaml", "missing.yaml"}

MimicPathLists == UNION { [1..n -> MimicPaths] : n \in 2..MaxPaths }

S_isize == <<"3", ",", "1", ",", "2">>

DefaultArgs(config, ts, submodule, scale) ==
    [config |-> config, ts |-> ts, submodule |-> submodule, scale |-> scale,
     model |-> S_AlexNet, pkl |-> NoPath, isize |-> S_isize]

\* get_argparser + parse_args: --config takes one or more paths and is None
\* when the flag is absent; a caller of run may pass any list.
CommandLines ==
    { DefaultArgs(c, FALSE, sub, sc) :
        c \in PathLists \cup {None}, sub \in BOOLEAN, sc \in BOOLEAN }
    \cup
    { DefaultArgs(c, TRUE, sub, sc) :
        c \in { l \in PathLists : Len(l) <= 1 } \cup MimicPathLists \cup {None},
        sub \in BOOLEAN, sc \in BOOLEAN }
    \cup
    { [config |-> c, ts |-> FALSE, submodule |-> sub, scale |-> FALSE,
       model |-> m, pkl |-> pk, isize |-> S_isize] :
        c \in {<<>>, <<"missing.yaml">>, <<"cifar.yaml", "missing.yaml">>},
        sub \in BOOLEAN, m \in ModelTypes, pk \in {NoPath, "model.pkl"} }

-----------------------------------------------------------------------------
(* autoencoder_tester.py                                                  *)

\* An optional integer (args.gpu, partition_idx): None or a number.
NoneInt == [none |-> TRUE, int |-> 0]

SomeInt(i) == [none |-> FALSE, int |-> i]

\* A float in scientific notation, m * 10^e.
Sci(m, e) == <<m, e>>

\* A module: a network, a layer or an autoencoder.  `depth` is the number of
\* primitive layers it decomposes into, `parallel` whether nn.DataParallel
\* wraps it, `params` where its parameters come from.
Module(kind, id, depth, params, parallel) ==
    [kind |-> kind, id |-> id, depth |-> depth, params |-> params,
     parallel |-> parallel]

NoModule == Module("None", 0, 0, "None", FALSE)

S_input == <<"i", "n", "p", "u", "t">>
S_hidden == <<"h", "i", "d", "d", "e", "n">>

D_cpu == <<"cpu">>
D_cuda == <<"cuda">>

CkptPaths == {"ae.ckpt", "missing.ckpt"}

ckpt_exists(path) == path = "ae.ckpt"

\* torch.load of the checkpoint save_ckpt wrote (lines 138-143).
Checkpoints ==
    { [model |-> "checkpoint", epoch |-> e, best_avg_loss |-> Sci(5, -1)] :
        e \in 2..MaxEpoch }

NoCheckpoint == [model |-> "None", epoch |-> 0, best_avg_loss |-> Sci(0, 0)]

NoTesterConfig ==
    [cuda |-> FALSE, gpu |-> NoneInt, ae_type |-> None, ckpt |-> NoPath,
     checkpoint |-> NoCheckpoint, partition_idx |-> NoneInt, host_depth |-> 0,
     host_parallel |-> FALSE]

TesterConfigs ==
    { [cuda |-> c, gpu |-> g, ae_type |-> t, ckpt |-> k, checkpoint |-> f,
       partition_idx |-> p, host_depth |-> n, host_parallel |-> hp] :
        c \in BOOLEAN, g \in {NoneInt, SomeInt(0), SomeInt(-1)},
        t \in {S_input, S_hidden}, k \in CkptPaths,
        f \in Checkpoints \cup {NoCheckpoint},
        p \in {NoneInt} \cup { SomeInt(i) : i \in -1..(MaxHostLayers + 1) },
        n \in 1..MaxHostLayers, hp \in BOOLEAN }

\* The runs: a GPU number matters only with CUDA, a checkpoint file has
\* content exactly when it exists, only a CUDA host model is wrapped, and the
\* partition index is an index into the host's layers, one past them, or -1.
TesterRuns ==
    { c \in TesterConfigs :
        /\ (~c.cuda => c.gpu = NoneInt /\ ~c.host_parallel)
        /\ (ckpt_exists(c.ckpt) <=> c.checkpoint # NoCheckpoint)
        /\ (~c.partition_idx.none => c.partition_idx.int <= c.host_depth + 1) }

\* str(i) of the GPU numbers modelled.
str(i) == CASE i = 0 -> "0" [] i = 1 -> "1"

\* run, lines 149-154.
Device(cuda, gpu) ==
    IF ~cuda THEN D_cpu
    ELSE IF ~gpu.none /\ gpu.int >= 0 THEN D_cuda \o <<":", str(gpu.int)>>
    ELSE D_cuda

\* module_util.use_multiple_gpus_if_available
use_multiple_gpus_if_available(module, dev) ==
    IF dev[1] = "cuda" THEN [module EXCEPT !.parallel = TRUE] ELSE module

get_autoencoder(config, dev) ==
    LET ae_type == config.ae_type
        made == IF ae_type = S_input
                THEN Module("InputAutoencoder", 0, 0, "fresh", FALSE)
                ELSE NoModule
    IN  IF made = NoModule
        THEN [raised |-> Raised("ValueError", ae_type), autoencoder |-> NoModule,
              ae_type |-> None]
        ELSE IF dev = None
        THEN [raised |-> NoError, autoencoder |-> made, ae_type |-> ae_type]
        ELSE [raised |-> NoError,
              autoencoder |-> use_multiple_gpus_if_available(made, dev),
              ae_type |-> ae_type]

\* The very large best loss of a run that starts afresh: 1e60.
SentinelLoss == Sci(1, 60)

\* A faulty variant: a missing checkpoint restarts at epoch 0.
resume_from_ckpt_EpochZero(ckpt_file_path, checkpoint, ae) ==
    IF ~ckpt_exists(ckpt_file_path)
    THEN [autoencoder |-> ae, value |-> <<0, SentinelLoss>>]
    ELSE [autoencoder |-> [ae EXCEPT !.params = checkpoint.model],
          value |-> <<checkpoint.epoch, checkpoint.best_avg_loss>>]

\* resume_from_ckpt: the autoencoder after the call and the pair returned.
resume_from_ckpt(ckpt_file_path, checkpoint, ae) ==
    IF ~ckpt_exists(ckpt_file_path)
    THEN [autoencoder |-> ae, value |-> <<1, SentinelLoss>>]
    ELSE [autoencoder |-> [ae EXCEPT !.params = checkpoint.model],
          value |-> <<checkpoint.epoch, checkpoint.best_avg_loss>>]

\* module_util.extract_decomposable_modules: the primitive layers of the
\* module, in forward order.
extract_decomposable_modules(module) ==
    [k \in 1..module.depth |-> Module("layer", k, 0, module.params, FALSE)]

\* nn.Sequential(*stages), and nn.DataParallel around it.
Sequential(stages) == [stages |-> stages, parallel |-> FALSE]

DataParallel(seq) == [seq EXCEPT !.parallel = TRUE]

NoExtendedModel == Sequential(<<>>)

\* A faulty variant: only None, not 0, wraps the whole network.
extend_model_NoneOnly(ae, model, input_shape, dev, partition_idx) ==
    IF partition_idx.none
    THEN Sequential(<<ae, model>>)
    ELSE LET modules == extract_decomposable_modules(model)
         IN  Sequential(PySliceTo(modules, partition_idx.int) \o <<ae>>
                            \o PySliceFrom(modules, partition_idx.int))

\* A faulty variant: the autoencoder is inserted one layer early.
extend_model_OneEarly(ae, model, input_shape, dev, partition_idx) ==
    IF partition_idx.none \/ partition_idx.int = 0
    THEN Sequential(<<ae, model>>)
    ELSE LET modules == extract_decomposable_modules(model)
         IN  Sequential(PySliceTo(modules, partition_idx.int - 1) \o <<ae>>
                            \o PySliceFrom(modules, partition_idx.int - 1))

\* extend_model, lines 24-31.
extend_model(ae, model, input_shape, dev, partition_idx) ==
    IF partition_idx.none \/ partition_idx.int = 0
    THEN Sequential(<<ae, model>>)
    ELSE LET module == IF model.parallel THEN [model EXCEPT !.parallel = FALSE]
                       ELSE model
             modules == extract_decomposable_modules(module)
         IN  Sequential(PySliceTo(modules, partition_idx.int) \o <<ae>>
                            \o PySliceFrom(modules, partition_idx.int))

\* module_util.get_model(model_config, device) of the host's configuration.
HostModel(config) ==
    Module("model", 0, config.host_depth, "pretrained", config.host_parallel)

get_extended_model(ae, config, input_shape, dev) ==
    extend_model(ae, HostModel(config), input_shape, dev, config.partition_idx)

InitAnalyzer ==
    /\ prog = "network_analyzer"
    /\ pc = "run"
    /\ error = NoError
    /\ calls = <<>>
    /\ args \in CommandLines
    /\ mimic_yaml = Unread
    /\ analyzed = <<>>
    /\ plots = <<>>
    /\ op_counts = <<>>
    /\ bandwidths = <<>>
    /\ accum_complexities = <<>>
    /\ op_counts_list = <<>>
    /\ bandwidths_list = <<>>
    /\ accum_complexities_list = <<>>
    /\ model_type_list = <<>>
    /\ teacher_op_counts = <<>>
    /\ teacher_bandwidths = <<>>
    /\ teacher_accum_complexities = <<>>
    /\ made_bottleneck = FALSE
    /\ bottleneck_idx = -1
    /\ teacher_complexity_list = <<>>
    /\ student_complexity_list = <<>>
    /\ teacher_bandwidth_list = <<>>
    /\ student_bandwidth_list = <<>>
    /\ tester_config = NoTesterConfig
    /\ device = None
    /\ autoencoder = NoModule
    /\ resumed = <<>>
    /\ extended_model = NoExtendedModel

multi_vars ==
    <<op_counts_list, bandwidths_list, accum_complexities_list>>

ts_vars ==
    <<mimic_yaml, teacher_op_counts, teacher_bandwidths,
      teacher_accum_complexities, made_bottleneck, bottleneck_idx,
      teacher_complexity_list, student_complexity_list,
      teacher_bandwidth_list, student_bandwidth_list>>

latest_vars == <<op_counts, bandwidths, accum_complexities>>

\* run (lines 146-153): the choice of the analysis.
Run ==
    /\ prog = "network_analyzer"
    /\ pc = "run"
    /\ IF args.config = None
       THEN \* len(None)
            /\ pc' = "error"
            /\ error' = Raised("TypeError", None)
            /\ calls' = calls
       ELSE /\ error' = error
            /\ pc' = IF Len(args.config) <= 1 THEN "analyze_single_model"
                     ELSE IF ~args.ts THEN "analyze_multiple_models"
                     ELSE "analyze_teacher_student_models"
            /\ calls' = Append(calls, pc')
    /\ UNCHANGED <<tester_vars, prog, args, analyzed, plots, latest_vars, multi_vars,
                   model_type_list, ts_vars>>

\* run, line 149: analyze_single_model on the only path, or on None.
AnalyzeSingleModel ==
    /\ prog = "network_analyzer"
    /\ pc = "analyze_single_model"
    /\ LET path == IF Len(args.config) = 0 THEN NoPath ELSE args.config[1]
           r == analyze_single_model(path, args, TRUE)
       IN  /\ analyzed' = analyzed \o r.handed
           /\ error' = r.raised
           /\ IF r.raised # NoError
              THEN /\ pc' = "error"
                   /\ UNCHANGED latest_vars
              ELSE /\ pc' = "done"
                   /\ op_counts' = r.result.op_counts
                   /\ bandwidths' = r.result.bandwidths
                   /\ accum_complexities' = r.result.accum_complexities
    /\ UNCHANGED <<tester_vars, prog, calls, args, plots, multi_vars, model_type_list, ts_vars>>

\* analyze_multiple_models, lines 90-95: one iteration of the loop.
AnalyzeMultipleModelsStep ==
    /\ prog = "network_analyzer"
    /\ pc = "analyze_multiple_models"
    /\ Len(model_type_list) < Len(args.config)
    /\ LET path == args.config[Len(model_type_list) + 1]
           r == analyze_single_model(path, args, FALSE)
       IN  /\ analyzed' = analyzed \o r.handed
           /\ error' = r.raised
           /\ IF r.raised # NoError
              THEN /\ pc' = "error"
                   /\ UNCHANGED <<latest_vars, multi_vars, model_type_list>>
              ELSE /\ pc' = pc
                   /\ op_counts' = r.result.op_counts
                   /\ bandwidths' = r.result.bandwidths
                   /\ accum_complexities' = r.result.accum_complexities
                   /\ op_counts_list' = Append(op_counts_list, r.result.op_counts)
                   /\ bandwidths_list' = Append(bandwidths_list, r.result.bandwidths)
                   /\ accum_complexities_list' =
                        Append(accum_complexities_list, r.result.accum_complexities)
                   /\ model_type_list' = Append(model_type_list, r.handed[1].model_type)
    /\ UNCHANGED <<tester_vars, prog, calls, args, plots, ts_vars>>

\* analyze_multiple_models, lines 97-99: the three comparison plots.
AnalyzeMultipleModelsPlot ==
    /\ prog = "network_analyzer"
    /\ pc = "analyze_multiple_models"
    /\ Len(model_type_list) = Len(args.config)
    /\ plots' = plots \o <<"plot_model_complexities",
                          "plot_accumulated_model_complexities",
                          "plot_model_bandwidths">>
    /\ pc' = "done"
    /\ UNCHANGED <<tester_vars, prog, error, calls, args, analyzed, latest_vars, multi_vars,
                   model_type_list, ts_vars>>

\* analyze_teacher_student_models, lines 117-137: one iteration of the loop.
AnalyzeTeacherStudentStep ==
    /\ prog = "network_analyzer"
    /\ pc = "analyze_teacher_student_models"
    /\ Len(model_type_list) < Len(args.config)
    /\ LET path == args.config[Len(model_type_list) + 1]
       IN  IF ~check_if_exists(path)
           THEN \* yaml_util.load_yaml_file opens a file that is not there
                /\ pc' = "error"
                /\ error' = Raised("FileNotFoundError", None)
                /\ UNCHANGED <<latest_vars, model_type_list, ts_vars>>
           ELSE IF "teacher_model" \notin load_yaml_file(path).keys
           THEN \* mimic_config['teacher_model']
                /\ pc' = "error"
                /\ error' = Raised("KeyError", None)
                /\ UNCHANGED <<latest_vars, model_type_list, ts_vars>>
           ELSE \E sections \in (IF mimic_yaml.read THEN {mimic_yaml} ELSE MimicSections) :
                LET mimic_config == load_yaml_file(path)
                    input_shape == mimic_config.input_shape
                    teacher_model == sections.teacher
                    student_model == Network("student", sections.layers)
                    t == analyze(teacher_model, input_shape, None, args.scale,
                                 args.submodule, FALSE)
                    s == analyze(student_model, input_shape, None, args.scale,
                                 args.submodule, FALSE)
                    made == endswith(sections.version, S_b)
                    b_idx == BottleneckIdx(s.bandwidths, made)
                IN  /\ mimic_yaml' = sections
                    /\ teacher_op_counts' = t.op_counts
                    /\ teacher_bandwidths' = t.bandwidths
                    /\ teacher_accum_complexities' = t.accum_complexities
                    /\ op_counts' = s.op_counts
                    /\ bandwidths' = s.bandwidths
                    /\ accum_complexities' = s.accum_complexities
                    /\ made_bottleneck' = made
                    /\ model_type_list' =
                        Append(model_type_list, VersionLabel(sections.version))
                    /\ teacher_complexity_list' =
                        Append(teacher_complexity_list,
                               TeacherComplexity(t.accum_complexities))
                    /\ teacher_bandwidth_list' =
                        Append(teacher_bandwidth_list, TeacherBandwidth(t.bandwidths))
                    /\ bottleneck_idx' = b_idx
                    /\ student_complexity_list' =
                        Append(student_complexity_list,
                               StudentComplexity(s.accum_complexities, s.bandwidths,
                                                 b_idx, made))
                    /\ student_bandwidth_list' =
                        Append(student_bandwidth_list,
                               StudentBandwidth(s.bandwidths, b_idx, made))
                    /\ UNCHANGED <<pc, error>>
    /\ UNCHANGED <<tester_vars, prog, calls, args, analyzed, plots, multi_vars>>

\* analyze_teacher_student_models, lines 139-143: the two comparison plots.
AnalyzeTeacherStudentPlot ==
    /\ prog = "network_analyzer"
    /\ pc = "analyze_teacher_student_models"
    /\ Len(model_type_list) = Len(args.config)
    /\ plots' = plots \o <<"plot_teacher_and_student_complexities",
                          "plot_bottleneck_bandwidth_vs_complexity">>
    /\ pc' = "done"
    /\ UNCHANGED <<tester_vars, prog, error, calls, args, analyzed, latest_vars, multi_vars,
                   model_type_list, ts_vars>>

InitTester ==
    /\ prog = "autoencoder_tester"
    /\ pc = "get_autoencoder"
    /\ error = NoError
    /\ calls = <<>>
    /\ args = DefaultArgs(None, FALSE, FALSE, FALSE)
    /\ mimic_yaml = Unread
    /\ analyzed = <<>>
    /\ plots = <<>>
    /\ op_counts = <<>>
    /\ bandwidths = <<>>
    /\ accum_complexities = <<>>
    /\ op_counts_list = <<>>
    /\ bandwidths_list = <<>>
    /\ accum_complexities_list = <<>>
    /\ model_type_list = <<>>
    /\ teacher_op_counts = <<>>
    /\ teacher_bandwidths = <<>>
    /\ teacher_accum_complexities = <<>>
    /\ made_bottleneck = FALSE
    /\ bottleneck_idx = -1
    /\ teacher_complexity_list = <<>>
    /\ student_complexity_list = <<>>
    /\ teacher_bandwidth_list = <<>>
    /\ student_bandwidth_list = <<>>
    /\ tester_config \in TesterRuns
    /\ device = Device(tester_config.cuda, tester_config.gpu)
    /\ autoencoder = NoModule
    /\ resumed = <<>>
    /\ extended_model = NoExtendedModel

\* run, line 159.
TesterGetAutoencoder ==
    /\ prog = "autoencoder_tester"
    /\ pc = "get_autoencoder"
    /\ LET r == get_autoencoder(tester_config, device)
       IN  /\ error' = r.raised
           /\ autoencoder' = r.autoencoder
           /\ pc' = IF r.raised # NoError THEN "error" ELSE "resume_from_ckpt"
    /\ UNCHANGED <<prog, analyzer_vars, tester_config, device, resumed,
                   extended_model>>

\* run, line 160.
TesterResumeFromCkpt ==
    /\ prog = "autoencoder_tester"
    /\ pc = "resume_from_ckpt"
    /\ LET r == resume_from_ckpt(tester_config.ckpt, tester_config.checkpoint,
                                 autoencoder)
       IN  /\ autoencoder' = r.autoencoder
           /\ resumed' = r.value
    /\ pc' = "get_extended_model"
    /\ UNCHANGED <<prog, error, analyzer_vars, tester_config, device,
                   extended_model>>

\* run, lines 161-163.
TesterGetExtendedModel ==
    /\ prog = "autoencoder_tester"
    /\ pc = "get_extended_model"
    /\ LET built == get_extended_model(autoencoder, tester_config, <<1, 1, 2>>, device)
       IN  extended_model' = IF device[1] = "cuda" THEN DataParallel(built)
                             ELSE built
    /\ pc' = "test"
    /\ UNCHANGED <<prog, error, analyzer_vars, tester_config, device,
                   autoencoder, resumed>>

\* run, lines 165-171: test is handed the test loader where it expects the
\* original model, and calls eval() on it (line 109).
TesterTest ==
    /\ prog = "autoencoder_tester"
    /\ pc = "test"
    /\ pc' = "error"
    /\ error' = Raised("AttributeError", None)
    /\ UNCHANGED <<prog, analyzer_vars, tester_vars>>

Init == InitAnalyzer \/ InitTester

Next ==
    \/ TesterGetAutoencoder
    \/ TesterResumeFromCkpt
    \/ TesterGetExtendedModel
    \/ TesterTest
    \/ Run
    \/ AnalyzeSingleModel
    \/ AnalyzeMultipleModelsStep
    \/ AnalyzeMultipleModelsPlot
    \/ AnalyzeTeacherStudentStep
    \/ AnalyzeTeacherStudentPlot

Spec == Init /\ [][Next]_vars

-----------------------------------------------------------------------------
(* Properties.                                                            *)

Last(s) == s[Len(s)]

RECURSIVE SumSeq(_)
SumSeq(s) == IF s = <<>> THEN 0 ELSE s[1] + SumSeq(Tail(s))

\* A teacher/student iteration has completed; the variables bandwidths,
\* accum_complexities, made_bottleneck and bottleneck_idx are its student's.
PairAnalyzed == prog = "network_analyzer" /\ student_complexity_list # <<>>

\* r is the quotient of bandwidths at 1-based positions k over 1.
IsRatioOf(r, bws, k) == r[1] * bws[1] = r[2] * bws[k]

StrictMinimum == \E k \in 2..Len(bandwidths) : bandwidths[k] < bandwidths[1]

\* C1: with the bottleneck flag set and a minimum bandwidth strictly below
\* the bandwidth at position 0, the selected index is the index of the
\* minimum, the recorded ratio is bandwidths[index] / bandwidths[0], and the
\* recorded complexity is the accumulated complexity one position before it.
C1_BottleneckSelected ==
    (PairAnalyzed /\ made_bottleneck /\ StrictMinimum) =>
        /\ bottleneck_idx \in 0..(Len(bandwidths) - 1)
        /\ \A j \in 1..Len(bandwidths) :
                bandwidths[bottleneck_idx + 1] <= bandwidths[j]
        /\ IsRatioOf(Last(student_bandwidth_list), bandwidths, bottleneck_idx + 1)
        /\ Last(student_complexity_list) = accum_complexities[bottleneck_idx]

\* The spec's example [100, 100, 20, 100], at the model's scale: index 2 is
\* selected and the complexity is the one accumulated at index 1.
C1_Witness ==
    /\ PairAnalyzed /\ made_bottleneck
    /\ bandwidths = <<8, 8, 4, 8>>
    /\ bottleneck_idx = 2
    /\ accum_complexities[2] # accum_complexities[3]
    /\ Last(student_complexity_list) = accum_complexities[2]

\* C2: with the flag unset, or no bandwidth below the one at position 0, the
\* last layer is the comparison point: the recorded complexity is the last
\* accumulated complexity and the ratio is bandwidths[last] / bandwidths[0].
C2_LastLayerFallback ==
    (PairAnalyzed /\ (~made_bottleneck \/ ~StrictMinimum)) =>
        /\ Last(student_complexity_list) = Last(accum_complexities)
        /\ IsRatioOf(Last(student_bandwidth_list), bandwidths, Len(bandwidths))

\* The flag is unset and a layer in the middle has a bandwidth below both
\* the input's and the last layer's.
C2_Witness ==
    /\ PairAnalyzed /\ ~made_bottleneck
    /\ \E k \in 2..(Len(bandwidths) - 1) :
            /\ bandwidths[k] < bandwidths[1]
            /\ bandwidths[k] < Last(bandwidths)
            /\ accum_complexities[k - 1] # Last(accum_complexities)
    /\ Last(student_complexity_list) = Last(accum_complexities)

\* C3: with partition_idx 0 and with partition_idx None, extend_model returns
\* the two stages (autoencoder, whole host model), the host not decomposed.
C3_NoSplit ==
    (prog = "autoencoder_tester" /\ extended_model # NoExtendedModel
        /\ (tester_config.partition_idx.none \/ tester_config.partition_idx.int = 0)) =>
        /\ Len(extended_model.stages) = 2
        /\ extended_model.stages[1] = autoencoder
        /\ extended_model.stages[2].kind = "model"
        /\ extended_model.stages[2].depth = tester_config.host_depth
        /\ extended_model.stages[2].parallel = tester_config.host_parallel

C3_Witness ==
    /\ prog = "autoencoder_tester"
    /\ ~tester_config.partition_idx.none /\ tester_config.partition_idx.int = 0
    /\ tester_config.host_depth >= 2
    /\ Len(extended_model.stages) = 2

\* C4: with a partition index i, 1 <= i <= n, on a host of n primitive
\* layers, extend_model returns n + 1 stages: the autoencoder at position i
\* and every original layer once, in its original order.
C4_SplicedAtIndex ==
    (prog = "autoencoder_tester" /\ extended_model # NoExtendedModel
        /\ ~tester_config.partition_idx.none
        /\ tester_config.partition_idx.int >= 1
        /\ tester_config.partition_idx.int <= tester_config.host_depth) =>
        LET i == tester_config.partition_idx.int
            n == tester_config.host_depth
            stages == extended_model.stages
        IN  /\ Len(stages) = n + 1
            /\ stages[i + 1] = autoencoder
            /\ \A k \in 1..i : stages[k].kind = "layer" /\ stages[k].id = k
            /\ \A k \in (i + 1)..n :
                    stages[k + 1].kind = "layer" /\ stages[k + 1].id = k

C4_Witness ==
    /\ prog = "autoencoder_tester"
    /\ tester_config.host_depth = 3
    /\ tester_config.partition_idx = SomeInt(2)
    /\ Len(extended_model.stages) = 4
    /\ extended_model.stages[3] = autoencoder

UnsupportedModelType(m) ==
    /\ lower(m) \notin {S_mnist, S_yolov2, S_yolov3}
    /\ m \notin {S_AlexNet, S_alexnet, S_resnet18}

\* C5: an unrecognized model type makes get_model, and an unrecognized
\* autoencoder type makes get_autoencoder, fail with a ValueError naming the
\* value; no network is returned.
C5_UnknownTypeIsValueError ==
    /\ (prog = "network_analyzer" /\ calls = <<"analyze_single_model">>
            /\ pc \in {"done", "error"}
            /\ ~check_if_exists(IF args.config = <<>> THEN NoPath ELSE args.config[1])
            /\ ~check_if_exists(args.pkl)
            /\ UnsupportedModelType(args.model)) =>
            (pc = "error" /\ error = Raised("ValueError", args.model)
                /\ analyzed = <<>>)
    /\ (prog = "autoencoder_tester" /\ pc # "get_autoencoder"
            /\ tester_config.ae_type # S_input) =>
            (pc = "error" /\ error = Raised("ValueError", tester_config.ae_type)
                /\ autoencoder = NoModule /\ extended_model = NoExtendedModel)

\* C6: resume_from_ckpt on a checkpoint path that does not exist raises
\* nothing, leaves the autoencoder freshly initialized and returns epoch 1
\* with the best loss 1e60; the run goes on to build the extended model.
C6_MissingCheckpoint ==
    (prog = "autoencoder_tester" /\ ~ckpt_exists(tester_config.ckpt)
        /\ pc \notin {"get_autoencoder", "resume_from_ckpt"}
        /\ autoencoder # NoModule) =>
        /\ resumed = <<1, Sci(1, 60)>>
        /\ autoencoder.params = "fresh"
        /\ (pc = "get_extended_model" => error = NoError)
        /\ (pc # "get_extended_model" =>
                /\ extended_model # NoExtendedModel
                /\ autoencoder \in
                    { extended_model.stages[k] : k \in 1..Len(extended_model.stages) })

C6_Witness ==
    /\ prog = "autoencoder_tester"
    /\ ~ckpt_exists(tester_config.ckpt)
    /\ resumed = <<1, Sci(1, 60)>>
    /\ pc = "test"
    /\ extended_model # NoExtendedModel

\* C7: for every configuration file analyze_single_model loads, the model
\* handed to analyze is a network and the model type a label, never None.
C7_LoadedModelIsNetwork ==
    prog = "network_analyzer" =>
        \A k \in 1..Len(analyzed) :
            check_if_exists(analyzed[k].path) =>
                /\ analyzed[k].model # NoneModel
                /\ analyzed[k].model_type # None

PrefixSums(counts, accum) ==
    /\ Len(accum) = Len(counts)
    /\ \A i \in 1..Len(counts) : accum[i] = SumSeq(SubSeq(counts, 1, i))

NumPaths(config) == IF config = None THEN 0 ELSE Len(config)

ExpectedAnalysis ==
    IF NumPaths(args.config) <= 1 THEN "analyze_single_model"
    ELSE IF ~args.ts THEN "analyze_multiple_models"
    ELSE "analyze_teacher_student_models"

AnalyzedPaths == [k \in 1..Len(analyzed) |-> analyzed[k].path]

\* C9: run performs exactly one analysis: the single-model analysis with
\* zero or one config path, the multiple-model analysis (each path once, in
\* order) with two or more paths and -ts unset, the teacher/student analysis
\* with two or more paths and -ts set.
C9_OneAnalysisByPathCount ==
    (prog = "network_analyzer" /\ pc # "run") =>
        /\ calls = <<ExpectedAnalysis>>
        /\ (pc = "done" /\ ExpectedAnalysis = "analyze_multiple_models" =>
                AnalyzedPaths = args.config)

\* The same with --config given: the formula C9 fails only for its absence.
C9_OneAnalysisWhenConfigGiven ==
    (prog = "network_analyzer" /\ pc # "run" /\ args.config # None) =>
        /\ calls = <<ExpectedAnalysis>>
        /\ (pc = "done" /\ ExpectedAnalysis = "analyze_multiple_models" =>
                AnalyzedPaths = args.config)

\* C10: whenever the genuine-bottleneck branch is taken the bottleneck index
\* is at least 1, so index - 1 never wraps around; a minimum at position 0,
\* or tied with it, takes the last-layer fallback.
C10_BottleneckIndexPositive ==
    /\ (PairAnalyzed /\ made_bottleneck
            /\ PyIndex(bandwidths, bottleneck_idx) < PyIndex(bandwidths, 0)) =>
            bottleneck_idx >= 1
    /\ (PairAnalyzed /\ made_bottleneck
            /\ \A j \in 1..Len(bandwidths) : bandwidths[1] <= bandwidths[j]) =>
            /\ bottleneck_idx = 0
            /\ Last(student_complexity_list) = Last(accum_complexities)
            /\ IsRatioOf(Last(student_bandwidth_list), bandwidths, Len(bandwidths))

C10_Witness ==
    /\ PairAnalyzed /\ made_bottleneck
    /\ bottleneck_idx = 1
    /\ bandwidths[2] < bandwidths[1]
    /\ Last(student_complexity_list) = accum_complexities[1]
    /\ Last(student_complexity_list) # Last(accum_complexities)

=============================================================================
